---- MODULE Spec2Model ----
(***************************************************************************)
(* Model of claif_cod's process transport: CodexTransport.send_query and   *)
(* CodexTransport._execute_async (src/src/claif_cod/transport.py), with    *)
(* the tenacity retry loop that send_query configures.  One behaviour is   *)
(* one send_query call consumed to the end by its caller.                  *)
(* LifeSpec adds cancellation by the consumer and a child that stays       *)
(* silent; TransportSpec is two send_query calls and disconnect on one     *)
(* CodexTransport, which share self.process.                               *)
(***************************************************************************)
EXTENDS Integers, Sequences, FiniteSets, TLC

\* ------------------------------------------------------------------ bounds
\* Largest retry_count a caller configures in the model.
MaxRetry == 3
\* Largest number of non-empty stdout lines read during one query.
MaxLines == 2
\* Largest number of disconnect calls in TransportSpec.
MaxDisconnects == 2
\* The retry_count of the calls of BackoffSpec.
MaxBackoffRetry == 5
\* Largest number of blocks in the content list of a message record.
MaxBlocks == 2
\* Largest number of image paths in CodexOptions.images.
MaxImages == 2
MaxWrites == 3

\* ------------------------------------------------------- program constants
\* timeout_seconds = options.timeout if options.timeout else 300
DefaultTimeout == 300
\* max=retry_delay * 10 in wait_exponential
BackoffCapFactor == 10

\* ------------------------------------------------------------ input spaces
RetryCounts == -1 .. MaxRetry
RetryDelays == {1, 2}
Timeouts == {0, 30}
\* timeout: int | None = None; None is written -1 here
NoneTimeout == 0 - 1
\* What find_executable("codex", exec_path) and Path(cli_path) give:
\* an existing file, a command string with arguments that shlex can split,
\* a command string with an unbalanced quote, a bare command name, or
\* InstallError.
CliOutcomes == {"file", "command", "unsplittable", "name", "notfound"}
\* A stdout line after decode/strip: plain text or a JSON record (both yield
\* one CodexMessage), an empty line (skipped), or a line whose handling
\* throws inside the try block (undecodable bytes, JSON that is not an object).
LineKinds == {"text", "blank", "throws"}
\* What a stdout line holds: text that is not JSON, a JSON object that is not
\* a message record, a message record with a list of block objects, a JSON
\* value that is not an object (number, string, list, null), a message record
\* whose content is not a list of objects, or nothing but whitespace.
LineClasses == {"invalid_json", "other_object", "message", "json_scalar",
                "message_bad_content", "whitespace"}
ExitCodes == {0, 1}
Stderrs == {"", "Invalid API key"}
\* How the exception-path cleanup of a still running child ends.
CleanupOutcomes == {"terminated", "killed", "cleanup_error"}

OptionSpace ==
    [no_retry : BOOLEAN, retry_count : RetryCounts,
     retry_delay : RetryDelays, timeout : Timeouts]

VARIABLES
    options,         \* the CodexOptions of the call
    pc,              \* position of send_query
    epc,             \* position of the running _execute_async generator
    stream,          \* events yielded to the consumer of send_query
    results,         \* send_query's local list `results` of the attempt
    attempt_number,  \* tenacity retry_state.attempt_number
    outcome,         \* exception that left the attempt, or NoExc
    process,         \* the child process of the attempt
    calls,           \* number of _execute_async invocations
    spawned,         \* number of child processes created
    slept,           \* backoff delays slept, in order
    lines_read,      \* non-empty stdout lines read so far
    history,         \* how each _execute_async invocation ended, in order
    transport_process, \* TransportSpec: self.process, a child or 0 for None
    children,        \* TransportSpec: state of the child of each call
    call_pc,         \* TransportSpec: position of each send_query call
    signals,         \* TransportSpec: signals sent to children, in order
    disconnects,     \* TransportSpec: number of disconnect calls made
    disconnect_exc,  \* TransportSpec: exception that left disconnect
    line,            \* ParseSpec: a stdout line as readline returned it
    parsed,          \* ParseSpec: what the loop body did with the line
    cli_path,        \* CommandSpec: what _find_cli returned
    build_options,   \* CommandSpec: the CodexOptions fields of _build_command
    prompt,          \* CommandSpec: the prompt
    command,         \* CommandSpec: what _build_command returned or raised
    launch,          \* WorkdirSpec: a CodexOptions and what a query does with it
    env,             \* EnvSpec: os.environ and what _build_env returned
    resolved,        \* ResolveSpec: CodexClient.__init__ resolving codex_path
    orch,            \* InstallSpec: the client's auto-install fallback
    client,          \* ClientSpec: one ChatCompletions.create call
    kill,            \* KillSpec: terminating one running child
    pipe             \* PipeSpec: an attempt and its child's two pipes

qvars == <<options, pc, epc, stream, results, attempt_number, outcome,
           process, calls, spawned, slept, lines_read, history>>
tvars == <<transport_process, children, call_pc, signals, disconnects,
           disconnect_exc>>
pvars == <<line, parsed>>
cvars == <<cli_path, build_options, prompt, command>>
evars == <<launch, env, resolved, orch, client, kill, pipe>>
vars == <<options, pc, epc, stream, results, attempt_number, outcome,
          process, calls, spawned, slept, lines_read, history,
          transport_process, children, call_pc, signals, disconnects,
          disconnect_exc, line, parsed, cli_path, build_options, prompt,
          command, launch, env, resolved, orch, client, kill, pipe>>

\* --------------------------------------------------------------- exceptions
NoExc == [type |-> "None", text |-> ""]
Exc(t, s) == [type |-> t, text |-> s]

\* _find_cli: InstallError wrapped in TransportError
NotFoundError ==
    Exc("TransportError", "Codex CLI executable not found: codex")
\* shlex.split on an unbalanced quote
SplitError == Exc("ValueError", "No closing quotation")
\* except Exception as e: ... raise TransportError(f"Failed to execute ...")
WrapError(e) ==
    IF e.type = "TransportError" THEN e
    ELSE Exc("TransportError", "Failed to execute Codex command: " \o e.text)
SpawnError == Exc("OSError", "Permission denied")
LineError == Exc("AttributeError", "object has no attribute 'get'")
\* json.loads, data.get("type"), for block_data in data["content"],
\* block_data.get("type"): what the handling of a line of each class does
LineOutcome(cls) ==
    CASE cls = "whitespace" -> "blank"
      [] cls \in {"json_scalar", "message_bad_content"} -> "throws"
      [] OTHER -> "text"
\* options.timeout if options.timeout else 300 (None and 0 are falsy)
TimeoutSecondsUnlessNone(opts) ==
    IF opts.timeout # NoneTimeout THEN opts.timeout ELSE DefaultTimeout
TimeoutSeconds(opts) ==
    IF opts.timeout \notin {0, NoneTimeout} THEN opts.timeout
    ELSE DefaultTimeout
TimedOutError(opts) ==
    Exc("TransportError",
        "Command timed out after " \o ToString(TimeoutSeconds(opts)) \o "s")
\* error_msg = f"Codex command failed (exit code {returncode})", plus
\* f": {stderr_output}" when stderr is not empty
ExitErrorNoStderr(rc, err) ==
    Exc("TransportError",
        "Codex command failed (exit code " \o ToString(rc) \o ")")
ExitError(rc, err) ==
    Exc("TransportError",
        "Codex command failed (exit code " \o ToString(rc) \o ")"
          \o (IF err # "" THEN ": " \o err ELSE ""))
NoResponseError ==
    Exc("TransportError", "No response received from Codex CLI")

\* ------------------------------------------------------------------ events
CodexMessageEv(n, k) ==
    [type |-> "CodexMessage", error |-> FALSE, message |-> "",
     attempt |-> n, line |-> k]
SuccessResult(n) ==
    [type |-> "ResultMessage", error |-> FALSE, message |-> "",
     attempt |-> n, line |-> 0]
ErrorResult(n, msg) ==
    [type |-> "ResultMessage", error |-> TRUE, message |-> msg,
     attempt |-> n, line |-> 0]

\* ------------------------------------------------------- retry configuration
\* if no_retry or retry_count <= 0
RetriesDisabledFlagOnly(opts) == opts.no_retry
RetriesDisabled(opts) == opts.no_retry \/ opts.retry_count <= 0

\* retry_if_exception_type(retry_exceptions); of these only TransportError
\* can leave _execute_async
RetryExceptions ==
    {"TimeoutExpired", "TransportError", "ConnectionError", "TimeoutError"}
RetryIfExceptionType(e) == e.type \in RetryExceptions

\* stop_after_attempt(retry_count + 1)
StopAfterAttemptLate(opts, n) == n >= opts.retry_count + 2
StopAfterAttemptEarly(opts, n) == n >= opts.retry_count
StopAfterAttempt(opts, n) == n >= opts.retry_count + 1

Min(a, b) == IF a <= b THEN a ELSE b
Max(a, b) == IF a >= b THEN a ELSE b
\* wait_exponential(multiplier=retry_delay, min=retry_delay,
\*                  max=retry_delay * 10) after failed attempt n
WaitExponentialUncapped(opts, n) ==
    Max(Max(0, opts.retry_delay), opts.retry_delay * 2 ^ (n - 1))
WaitExponential(opts, n) ==
    Max(Max(0, opts.retry_delay),
        Min(opts.retry_delay * 2 ^ (n - 1),
            opts.retry_delay * BackoffCapFactor))

\* message of the ResultMessage yielded on RetryError
ExhaustedMessageNoCause(opts, e) ==
    "Codex query failed after " \o ToString(opts.retry_count) \o " retries"
ExhaustedMessage(opts, e) ==
    "Codex query failed after " \o ToString(opts.retry_count)
        \o " retries: " \o e.text

\* if not results
NoResultsAlways(res) == TRUE
NoResults(res) == res = <<>>

\* ------------------------------------------------------------------- Init
NoProcess == [state |-> "none", returncode |-> 0, stderr |-> ""]

\* The send_query calls of TransportSpec; the child of call c is child c.
Callers == {1, 2}

\* CodexTransport.__init__: self.process = None, nothing spawned
TransportIdle ==
    /\ transport_process = 0
    /\ children = [c \in Callers |-> "unborn"]
    /\ call_pc = [c \in Callers |-> "start"]
    /\ signals = <<>>
    /\ disconnects = 0
    /\ disconnect_exc = NoExc

\* send_query has been called and has not run yet
QueryIdle ==
    /\ pc = "start"
    /\ epc = "idle"
    /\ stream = <<>>
    /\ results = <<>>
    /\ attempt_number = 0
    /\ outcome = NoExc
    /\ process = NoProcess
    /\ calls = 0
    /\ spawned = 0
    /\ slept = <<>>
    /\ lines_read = 0
    /\ history = <<>>

\* no stdout line is being handled
ParseIdle ==
    /\ line = <<>>
    /\ parsed = [kind |-> "pending"]

\* no command is being built
CommandIdle ==
    /\ cli_path = [found |-> FALSE, is_file |-> FALSE, text |-> <<>>]
    /\ build_options = [model |-> <<>>, working_dir |-> <<>>,
                        action_mode |-> <<>>,
                        auto_approve_everything |-> FALSE,
                        full_auto |-> FALSE, images |-> <<>>]
    /\ prompt = <<>>
    /\ command = [kind |-> "pending"]

\* nothing else of the package is in use
Unused == [step |-> "unused"]
ExtrasIdle ==
    /\ launch = Unused
    /\ env = Unused
    /\ resolved = Unused
    /\ orch = Unused
    /\ client = Unused
    /\ kill = Unused
    /\ pipe = Unused

Init ==
    /\ options \in OptionSpace
    /\ QueryIdle
    /\ TransportIdle
    /\ ParseIdle
    /\ CommandIdle
    /\ ExtrasIdle

\* ------------------------------------------------------------ _execute_async
\* An exception leaves _execute_async and reaches send_query's handler
\* (the except clause of the single attempt, or tenacity's AttemptManager).
Raise(e) ==
    /\ outcome' = e
    /\ history' = Append(history, e)
    /\ epc' = "idle"
    /\ pc' = "failed"

\* yield message
YieldFront(ev) ==
    /\ results' = Append(results, ev)
    /\ stream' = <<ev>> \o stream
YieldBuffered(ev) ==
    /\ results' = Append(results, ev)
    /\ stream' = stream
\* A message yielded by _execute_async passes through send_query, which
\* records it in `results` and yields it to the consumer.
Yield(ev) ==
    /\ results' = Append(results, ev)
    /\ stream' = Append(stream, ev)

\* send_query enters _execute_async; _build_command and _build_env run
\* before the try block, so what they raise is not wrapped.
ExecBuild ==
    /\ pc = "exec" /\ epc = "build"
    /\ calls' = calls + 1
    /\ results' = <<>>
    /\ \E cli \in CliOutcomes :
         CASE cli = "notfound" -> Raise(NotFoundError)
           [] cli = "unsplittable" -> Raise(SplitError)
           [] OTHER -> /\ epc' = "spawn"
                       /\ UNCHANGED <<pc, outcome, history>>
    /\ UNCHANGED <<options, stream, attempt_number, process, spawned, slept,
                   lines_read>>
    /\ UNCHANGED <<tvars, pvars, cvars, evars>>

\* process = await asyncio.create_subprocess_exec(...); self.process = process
ExecSpawn ==
    /\ pc = "exec" /\ epc = "spawn"
    /\ \E ok \in BOOLEAN :
         IF ok
         THEN /\ process' = [state |-> "running", returncode |-> 0,
                             stderr |-> ""]
              /\ spawned' = spawned + 1
              /\ epc' = "read"
              /\ UNCHANGED <<pc, outcome, history>>
         ELSE /\ Raise(WrapError(SpawnError))
              /\ UNCHANGED <<process, spawned>>
    /\ UNCHANGED <<options, stream, results, attempt_number, calls, slept,
                   lines_read>>
    /\ UNCHANGED <<tvars, pvars, cvars, evars>>

\* The child exits on its own (any time after it was spawned).
ChildExits ==
    /\ process.state = "running"
    /\ pc = "exec" /\ epc \in {"read", "wait"}
    /\ \E rc \in ExitCodes, err \in Stderrs :
         process' = [state |-> "exited", returncode |-> rc, stderr |-> err]
    /\ UNCHANGED <<options, pc, epc, stream, results, attempt_number, outcome,
                   calls, spawned, slept, lines_read, history>>
    /\ UNCHANGED <<tvars, pvars, cvars, evars>>

\* except Exception as e: if process and process.returncode is None:
\* terminate, wait 2 s, kill, wait; a failure of the cleanup is only logged.
Cleanup(c) ==
    IF process.state = "running"
    THEN CASE c = "terminated" ->
                process' = [process EXCEPT !.state = "exited",
                                            !.returncode = -15]
           [] c = "killed" ->
                process' = [process EXCEPT !.state = "exited",
                                            !.returncode = -9]
           [] OTHER -> UNCHANGED process
    ELSE UNCHANGED process

\* line_bytes = await process.stdout.readline(), with a non-empty result
ExecReadLine ==
    /\ pc = "exec" /\ epc = "read"
    /\ lines_read < MaxLines
    /\ process.state # "hung"
    /\ \E cls \in LineClasses :
         CASE LineOutcome(cls) = "text" ->
                /\ Yield(CodexMessageEv(attempt_number, lines_read + 1))
                /\ lines_read' = lines_read + 1
                /\ UNCHANGED <<pc, epc, outcome, history, process>>
           [] LineOutcome(cls) = "blank" ->
                /\ lines_read' = lines_read + 1
                /\ UNCHANGED <<pc, epc, outcome, history, process, results,
                               stream>>
           [] OTHER ->
                /\ lines_read' = lines_read + 1
                /\ \E c \in CleanupOutcomes : Cleanup(c)
                /\ Raise(WrapError(LineError))
                /\ UNCHANGED <<results, stream>>
    /\ UNCHANGED <<options, attempt_number, calls, spawned, slept>>
    /\ UNCHANGED <<tvars, pvars, cvars, evars>>

\* readline returns b"": the child closed its stdout; break
ExecReadEOF ==
    /\ pc = "exec" /\ epc = "read"
    /\ process.state # "hung"
    /\ epc' = "wait"
    /\ UNCHANGED <<options, pc, stream, results, attempt_number, outcome,
                   process, calls, spawned, slept, lines_read, history>>
    /\ UNCHANGED <<tvars, pvars, cvars, evars>>

\* await asyncio.wait_for(process.wait(), timeout) returns the exit status
ExecWaitReturn ==
    /\ pc = "exec" /\ epc = "wait"
    /\ process.state = "exited"
    /\ IF process.returncode # 0
       THEN /\ Raise(ExitError(process.returncode, process.stderr))
            /\ UNCHANGED <<results, stream>>
       ELSE /\ Yield(SuccessResult(attempt_number))
            /\ history' = Append(history, NoExc)
            /\ epc' = "end"
            /\ UNCHANGED <<pc, outcome>>
    /\ UNCHANGED <<options, attempt_number, process, calls, spawned, slept,
                   lines_read>>
    /\ UNCHANGED <<tvars, pvars, cvars, evars>>

\* wait_for times out: kill the process group, await the exit, raise
ExecWaitTimeout ==
    /\ pc = "exec" /\ epc = "wait"
    /\ process.state = "running"
    /\ process' = [process EXCEPT !.state = "exited", !.returncode = -9]
    /\ Raise(TimedOutError(options))
    /\ UNCHANGED <<options, stream, results, attempt_number, calls, spawned,
                   slept, lines_read>>
    /\ UNCHANGED <<tvars, pvars, cvars, evars>>

\* ---------------------------------------------------------------- send_query
SendQueryStart ==
    /\ pc = "start"
    /\ pc' = "exec"
    /\ epc' = "build"
    /\ attempt_number' = 1
    /\ UNCHANGED <<options, stream, results, outcome, process, calls, spawned,
                   slept, lines_read, history>>
    /\ UNCHANGED <<tvars, pvars, cvars, evars>>

\* _execute_async is exhausted without an exception
SendQueryAttemptEnd ==
    /\ pc = "exec" /\ epc = "end"
    /\ IF RetriesDisabled(options)
       THEN /\ pc' = "done"
            /\ epc' = "idle"
            /\ UNCHANGED <<outcome, history>>
       ELSE IF NoResults(results)
            THEN /\ outcome' = NoResponseError
                 /\ epc' = "idle"
                 /\ pc' = "failed"
                 /\ UNCHANGED history
            ELSE /\ pc' = "done"
                 /\ epc' = "idle"
                 /\ UNCHANGED <<outcome, history>>
    /\ UNCHANGED <<options, stream, results, attempt_number, process, calls,
                   spawned, slept, lines_read>>
    /\ UNCHANGED <<tvars, pvars, cvars, evars>>

\* except Exception as e: yield ResultMessage(error=True, message=str(e))
SendQueryNoRetryFail ==
    /\ pc = "failed"
    /\ RetriesDisabled(options)
    /\ stream' = Append(stream, ErrorResult(attempt_number, outcome.text))
    /\ pc' = "done"
    /\ UNCHANGED <<options, epc, results, attempt_number, outcome, process,
                   calls, spawned, slept, lines_read, history>>
    /\ UNCHANGED <<tvars, pvars, cvars, evars>>

\* AsyncRetrying.__anext__ after a failed attempt: an exception that is not
\* retryable is raised as it is and leaves send_query
RetryReraise ==
    /\ pc = "failed"
    /\ ~RetriesDisabled(options)
    /\ ~RetryIfExceptionType(outcome)
    /\ pc' = "raised"
    /\ UNCHANGED <<options, epc, stream, results, attempt_number, outcome,
                   process, calls, spawned, slept, lines_read, history>>
    /\ UNCHANGED <<tvars, pvars, cvars, evars>>

\* ... the stop condition holds: RetryError, caught by send_query
RetryExhausted ==
    /\ pc = "failed"
    /\ ~RetriesDisabled(options)
    /\ RetryIfExceptionType(outcome)
    /\ StopAfterAttempt(options, attempt_number)
    /\ stream' = Append(stream,
                        ErrorResult(attempt_number,
                                    ExhaustedMessage(options, outcome)))
    /\ pc' = "done"
    /\ UNCHANGED <<options, epc, results, attempt_number, outcome, process,
                   calls, spawned, slept, lines_read, history>>
    /\ UNCHANGED <<tvars, pvars, cvars, evars>>

\* ... otherwise: prepare_for_next_attempt, then sleep the backoff delay
RetrySleep ==
    /\ pc = "failed"
    /\ ~RetriesDisabled(options)
    /\ RetryIfExceptionType(outcome)
    /\ ~StopAfterAttempt(options, attempt_number)
    /\ slept' = Append(slept, WaitExponential(options, attempt_number))
    /\ attempt_number' = attempt_number + 1
    /\ outcome' = NoExc
    /\ pc' = "sleep"
    /\ UNCHANGED <<options, epc, stream, results, process, calls, spawned,
                   lines_read, history>>
    /\ UNCHANGED <<tvars, pvars, cvars, evars>>

\* the sleep is over: the next attempt starts
RetryNextAttempt ==
    /\ pc = "sleep"
    /\ pc' = "exec"
    /\ epc' = "build"
    /\ UNCHANGED <<options, stream, results, attempt_number, outcome, process,
                   calls, spawned, slept, lines_read, history>>
    /\ UNCHANGED <<tvars, pvars, cvars, evars>>

Next ==
    \/ SendQueryStart
    \/ ExecBuild
    \/ ExecSpawn
    \/ ChildExits
    \/ ExecReadLine
    \/ ExecReadEOF
    \/ ExecWaitReturn
    \/ ExecWaitTimeout
    \/ SendQueryAttemptEnd
    \/ SendQueryNoRetryFail
    \/ RetryReraise
    \/ RetryExhausted
    \/ RetrySleep
    \/ RetryNextAttempt

Spec == Init /\ [][Next]_vars

\* ---------------------------------------------- cancellation, silent child
\* The child stops for good with its stdout still open: it prints nothing
\* more, does not close stdout and does not exit.
ChildHangs ==
    /\ pc = "exec" /\ epc = "read"
    /\ process.state = "running"
    /\ process' = [process EXCEPT !.state = "hung"]
    /\ UNCHANGED <<options, pc, epc, stream, results, attempt_number, outcome,
                   calls, spawned, slept, lines_read, history>>
    /\ UNCHANGED <<tvars, pvars, cvars, evars>>

\* The consumer closes the generator or the task is cancelled while
\* send_query is suspended: GeneratorExit / CancelledError are not
\* Exception, so `except Exception` in _execute_async does not run and
\* `except RetryError` in send_query does not match.
Cancel ==
    /\ pc \in {"exec", "sleep"}
    /\ pc' = "cancelled"
    /\ epc' = "idle"
    /\ UNCHANGED <<options, stream, results, attempt_number, outcome, process,
                   calls, spawned, slept, lines_read, history>>
    /\ UNCHANGED <<tvars, pvars, cvars, evars>>

LifeOptionSpace ==
    [no_retry : BOOLEAN, retry_count : {0, 2}, retry_delay : {1},
     timeout : {30}]
LifeInit == Init /\ options \in LifeOptionSpace
LifeNext == Next \/ ChildHangs \/ Cancel
LifeSpec == LifeInit /\ [][LifeNext]_vars

\* ---------------------------------------------- a query with many retries
BackoffOptionSpace ==
    [no_retry : BOOLEAN, retry_count : {MaxBackoffRetry},
     retry_delay : RetryDelays, timeout : {NoneTimeout, 0, 1, 30}]
BackoffInit ==
    /\ options \in BackoffOptionSpace
    /\ QueryIdle
    /\ TransportIdle
    /\ ParseIdle
    /\ CommandIdle
    /\ ExtrasIdle
\* How one whole _execute_async invocation can end: exhausted after its
\* success ResultMessage, or with one of the exceptions that can leave it.
AttemptOutcomes(opts) ==
    {NoExc, NotFoundError, TimedOutError(opts), SplitError}
\* async for message in self._execute_async(prompt, options): one whole
\* invocation, from _build_command to its last yield or its exception
ExecAttempt ==
    /\ pc = "exec" /\ epc = "build"
    /\ calls' = calls + 1
    /\ \E e \in AttemptOutcomes(options) :
         IF e = NoExc
         THEN /\ results' = <<SuccessResult(attempt_number)>>
              /\ stream' = Append(stream, SuccessResult(attempt_number))
              /\ history' = Append(history, NoExc)
              /\ epc' = "end"
              /\ UNCHANGED <<pc, outcome>>
         ELSE /\ results' = <<>>
              /\ Raise(e)
              /\ UNCHANGED stream
    /\ UNCHANGED <<options, attempt_number, process, spawned, slept,
                   lines_read>>
    /\ UNCHANGED <<tvars, pvars, cvars, evars>>
BackoffNext ==
    \/ SendQueryStart
    \/ ExecAttempt
    \/ SendQueryAttemptEnd
    \/ SendQueryNoRetryFail
    \/ RetryReraise
    \/ RetryExhausted
    \/ RetrySleep
    \/ RetryNextAttempt
BackoffSpec == BackoffInit /\ [][BackoffNext]_vars

\* ------------------------------------------ two calls on one CodexTransport
\* How a disconnect of a still running self.process goes: terminate()
\* raises; the child exits within 5 s of terminate(); it does not and is
\* killed; the kill raises something other than ProcessLookupError; killpg
\* raises ProcessLookupError, which is passed over.
DisconnectOutcomes ==
    {"terminate_raises", "terminated", "killed", "kill_raises",
     "lookup_error"}

Signal(c, sig, sender) == [to |-> c, sig |-> sig, by |-> sender]

\* process = await asyncio.create_subprocess_exec(...); self.process = process
CallSpawn(c) ==
    /\ call_pc[c] = "start"
    /\ children' = [children EXCEPT ![c] = "running"]
    /\ transport_process' = c
    /\ call_pc' = [call_pc EXCEPT ![c] = "streaming"]
    /\ UNCHANGED <<signals, disconnects, disconnect_exc>>
    /\ UNCHANGED <<qvars, pvars, cvars, evars>>

\* A child exits on its own.
CallChildExits(c) ==
    /\ children[c] = "running"
    /\ children' = [children EXCEPT ![c] = "exited"]
    /\ UNCHANGED <<transport_process, call_pc, signals, disconnects,
                   disconnect_exc>>
    /\ UNCHANGED <<qvars, pvars, cvars, evars>>

\* process.wait() returns: success ResultMessage or exit-code TransportError
CallWaitReturn(c) ==
    /\ call_pc[c] = "streaming"
    /\ children[c] = "exited"
    /\ call_pc' = [call_pc EXCEPT ![c] = "ended"]
    /\ UNCHANGED <<transport_process, children, signals, disconnects,
                   disconnect_exc>>
    /\ UNCHANGED <<qvars, pvars, cvars, evars>>

\* wait_for times out: the call kills its own child (the local `process`)
CallWaitTimeout(c) ==
    /\ call_pc[c] = "streaming"
    /\ children[c] = "running"
    /\ signals' = Append(signals, Signal(c, "SIGKILL", c))
    /\ children' = [children EXCEPT ![c] = "exited"]
    /\ call_pc' = [call_pc EXCEPT ![c] = "ended"]
    /\ UNCHANGED <<transport_process, disconnects, disconnect_exc>>
    /\ UNCHANGED <<qvars, pvars, cvars, evars>>

\* an exception while streaming: cleanup of the call's own child
CallException(c) ==
    /\ call_pc[c] = "streaming"
    /\ call_pc' = [call_pc EXCEPT ![c] = "ended"]
    /\ IF children[c] = "running"
       THEN \E o \in CleanupOutcomes :
              CASE o = "terminated" ->
                     /\ signals' = Append(signals, Signal(c, "SIGTERM", c))
                     /\ children' = [children EXCEPT ![c] = "exited"]
                [] o = "killed" ->
                     /\ signals' = signals
                                     \o <<Signal(c, "SIGTERM", c),
                                          Signal(c, "SIGKILL", c)>>
                     /\ children' = [children EXCEPT ![c] = "exited"]
                [] OTHER -> UNCHANGED <<signals, children>>
       ELSE UNCHANGED <<signals, children>>
    /\ UNCHANGED <<transport_process, disconnects, disconnect_exc>>
    /\ UNCHANGED <<qvars, pvars, cvars, evars>>

\* self.process after disconnect: set to None at the end of the try block
\* and in the except clause
DisconnectProcessKept(o) ==
    IF o \in {"terminate_raises", "kill_raises"} THEN transport_process ELSE 0
DisconnectProcess(o) ==
    CASE o \in {"terminate_raises", "kill_raises"} -> 0
      [] OTHER -> 0

\* what leaves disconnect: `except Exception` swallows every failure
DisconnectRaises(o) ==
    CASE o \in {"terminate_raises", "kill_raises"} -> NoExc
      [] OTHER -> NoExc

\* signals that disconnect delivers to a running self.process
DisconnectSignals(c, o) ==
    CASE o = "terminate_raises" -> <<>>
      [] o = "terminated" -> <<Signal(c, "SIGTERM", "disconnect")>>
      [] o = "killed" -> <<Signal(c, "SIGTERM", "disconnect"),
                           Signal(c, "SIGKILL", "disconnect")>>
      [] OTHER -> <<Signal(c, "SIGTERM", "disconnect")>>

\* CodexTransport.disconnect, called before any call or after a call ended
Disconnect ==
    /\ disconnects < MaxDisconnects
    /\ \/ \A c \in Callers : call_pc[c] = "start"
       \/ \E c \in Callers : call_pc[c] = "ended"
    /\ disconnects' = disconnects + 1
    /\ IF transport_process = 0
       THEN UNCHANGED <<transport_process, children, signals,
                        disconnect_exc>>
       ELSE IF children[transport_process] # "running"
       THEN /\ transport_process' = 0
            /\ UNCHANGED <<children, signals, disconnect_exc>>
       ELSE \E o \in DisconnectOutcomes :
              /\ signals' = signals \o DisconnectSignals(transport_process, o)
              /\ children' =
                   IF o \in {"terminate_raises", "kill_raises"}
                   THEN children
                   ELSE [children EXCEPT ![transport_process] = "exited"]
              /\ transport_process' = DisconnectProcess(o)
              /\ disconnect_exc' = DisconnectRaises(o)
    /\ UNCHANGED call_pc
    /\ UNCHANGED <<qvars, pvars, cvars, evars>>

TransportInit ==
    /\ Init
    /\ options = [no_retry |-> TRUE, retry_count |-> 0, retry_delay |-> 1,
                  timeout |-> 30]
TransportNext ==
    \/ \E c \in Callers : CallSpawn(c)
    \/ \E c \in Callers : CallChildExits(c)
    \/ \E c \in Callers : CallWaitReturn(c)
    \/ \E c \in Callers : CallWaitTimeout(c)
    \/ \E c \in Callers : CallException(c)
    \/ Disconnect
TransportSpec == TransportInit /\ [][TransportNext]_vars

\* ------------------------------------------------ handling one stdout line
\* Text is a sequence of tokens: a space, a word, or the text of one JSON
\* document.
Sp == [tok |-> "space"]
Word(w) == [tok |-> "word", w |-> w]
JsonText(d) == [tok |-> "json", doc |-> d]
Str(w) == <<Word(w)>>

\* The blocks a content list can hold; a missing key is the empty text,
\* which is what block_data.get(key, "") gives.
Blk(t, text, language, content, error_message) ==
    [type |-> t, text |-> text, language |-> language,
     content |-> content, error_message |-> error_message]
InputBlocks ==
    {Blk("output_text", Str("hi"), <<>>, <<>>, <<>>),
     Blk("output_text", <<>>, <<>>, <<>>, <<>>),
     Blk("code", <<>>, Str("py"), Str("x=1"), <<>>),
     Blk("error", <<>>, <<>>, <<>>, Str("Invalid API key")),
     Blk("input_text", Str("do it"), <<>>, <<>>, <<>>),
     Blk("reasoning", Str("hmm"), <<>>, <<>>, <<>>)}
BlockLists == UNION {[1 .. n -> InputBlocks] : n \in 0 .. MaxBlocks}

\* The value of the "content" key: missing, a list of block objects, or
\* something else (a string, a number, a list holding a non-object).
Contents ==
    {[has |-> "absent", blocks |-> <<>>], [has |-> "bad", blocks |-> <<>>]}
        \cup {[has |-> "list", blocks |-> bs] : bs \in BlockLists}

\* The metadata keys of a result record.
NoMeta ==
    [duration |-> 0, error |-> FALSE, message |-> "", session_id |-> "",
     model |-> "", token_count |-> 0]
ResultMetas ==
    {[duration |-> 2, error |-> FALSE, message |-> "done",
      session_id |-> "s1", model |-> "o4-mini", token_count |-> 7],
     [duration |-> 3, error |-> TRUE, message |-> "failed",
      session_id |-> "s1", model |-> "o4-mini", token_count |-> 0]}

\* JSON documents: a value that is not an object, or an object with its
\* "type", "role" and "content" keys ("absent" for a missing key).
JsonScalar == [j |-> "scalar"]
JsonObjects ==
    {[j |-> "object", type |-> t, role |-> r, content |-> c, meta |-> m] :
        t \in {"absent", "message", "other"}, r \in {"absent", "user"},
        c \in Contents, m \in {NoMeta}}
    \cup
    {[j |-> "object", type |-> "result", role |-> "absent",
      content |-> [has |-> "absent", blocks |-> <<>>], meta |-> m] :
        m \in ResultMetas}
JsonDocs == {JsonScalar} \cup JsonObjects

\* What readline returns, decoded, without its line terminator.
Pads == {<<>>, <<Sp>>}
Bodies ==
    {<<>>, <<Word("Plain"), Sp, Word("output")>>, <<Word("{oops")>>}
        \cup {<<JsonText(d)>> : d \in JsonDocs}
Lines == {l \o b \o r : l \in Pads, b \in Bodies, r \in Pads}

\* str.strip()
RECURSIVE LStrip(_)
LStrip(s) ==
    IF s # <<>> /\ Head(s) = Sp THEN LStrip(Tail(s)) ELSE s
RECURSIVE RStrip(_)
RStrip(s) ==
    IF s # <<>> /\ s[Len(s)] = Sp THEN RStrip(SubSeq(s, 1, Len(s) - 1)) ELSE s
Strip(s) == RStrip(LStrip(s))

\* json.loads(line) succeeds
IsJson(s) == Len(s) = 1 /\ s[1].tok = "json"

\* the content blocks and the events of types.py
TextBlock(text) == [block |-> "TextBlock", text |-> text]
CodeBlock(language, content) ==
    [block |-> "CodeBlock", language |-> language, content |-> content]
ErrorBlock(error_message) ==
    [block |-> "ErrorBlock", error_message |-> error_message]
CodexMessage(role, content) ==
    [ev |-> "CodexMessage", role |-> role, content |-> content]

\* one pass of `for block_data in data["content"]`: the blocks appended
ConvertBlockAllText(b) ==
    CASE b.type = "output_text" -> <<TextBlock(b.text)>>
      [] b.type = "code" -> <<TextBlock(b.content)>>
      [] b.type = "error" -> <<TextBlock(b.error_message)>>
      [] OTHER -> <<>>
ConvertBlock(b) ==
    CASE b.type = "output_text" -> <<TextBlock(b.text)>>
      [] b.type = "code" -> <<CodeBlock(b.language, b.content)>>
      [] b.type = "error" -> <<ErrorBlock(b.error_message)>>
      [] OTHER -> <<>>
RECURSIVE ConvertBlocks(_)
ConvertBlocks(bs) ==
    IF bs = <<>> THEN <<>>
    ELSE ConvertBlock(Head(bs)) \o ConvertBlocks(Tail(bs))

Skipped == [kind |-> "skipped"]
Yielded(ev) == [kind |-> "yielded", event |-> ev]
Raised(e) == [kind |-> "raised", exc |-> e]

\* the body of the readline loop for one line that is not EOF
HandleLine(raw) ==
    LET s == Strip(raw) IN
    IF s = <<>> THEN Skipped
    ELSE IF ~IsJson(s)
    THEN Yielded(CodexMessage("assistant", <<TextBlock(s)>>))
    ELSE LET data == s[1].doc IN
         IF data.j # "object" THEN Raised(LineError)
         ELSE IF data.type = "message" /\ data.content.has # "absent"
         THEN IF data.content.has = "bad" THEN Raised(LineError)
              ELSE Yielded(CodexMessage(
                       IF data.role = "absent" THEN "assistant"
                       ELSE data.role,
                       ConvertBlocks(data.content.blocks)))
         ELSE Yielded(CodexMessage("assistant", <<TextBlock(s)>>))

\* readline returned `line`: the loop body runs
ReadLine ==
    /\ parsed.kind = "pending"
    /\ parsed' = HandleLine(line)
    /\ UNCHANGED line
    /\ UNCHANGED <<qvars, tvars, cvars, evars>>

ParseInit ==
    /\ options = [no_retry |-> TRUE, retry_count |-> 0, retry_delay |-> 1,
                  timeout |-> 30]
    /\ QueryIdle
    /\ TransportIdle
    /\ CommandIdle
    /\ ExtrasIdle
    /\ line \in Lines
    /\ parsed = [kind |-> "pending"]
ParseNext == ReadLine
ParseSpec == ParseInit /\ [][ParseNext]_vars

\* ---------------------------------------------------------- _build_command
\* More characters of a command string: a tab and a double quote.
Tab == [tok |-> "tab"]
Quote == [tok |-> "quote"]

\* The texts find_executable can return: a path, a path with a space, a bare
\* name, commands with arguments separated by spaces, by a tab, by both,
\* with a quoted word, and with an unbalanced quote.
CliTexts ==
    {<<Word("/usr/bin/codex")>>,
     <<Word("/my"), Sp, Word("dir/codex")>>,
     <<Word("codex")>>,
     <<Word("deno"), Sp, Word("run"), Sp, Word("codex.js")>>,
     <<Word("deno"), Tab, Word("codex.js")>>,
     <<Word("deno"), Sp, Word("run"), Tab, Word("codex.js")>>,
     <<Quote, Word("my"), Sp, Word("deno"), Quote, Sp, Word("codex.js")>>,
     <<Word("deno"), Sp, Quote, Word("codex.js")>>}
CliNotFound == [found |-> FALSE, is_file |-> FALSE, text |-> <<>>]
CliPaths ==
    {CliNotFound}
        \cup {[found |-> TRUE, is_file |-> f, text |-> t] :
                f \in BOOLEAN, t \in CliTexts}

ImagePaths == {Str("a.png"), <<Word("my"), Sp, Word("b.png")>>}
ImageLists == UNION {[1 .. n -> ImagePaths] : n \in 0 .. MaxImages}
\* The fields of CodexOptions that _build_command reads; an empty text is
\* None or "".
BuildOptionSpace ==
    [model : {<<>>, Str("o4-mini")},
     working_dir : {<<>>, <<Word("/my"), Sp, Word("proj")>>},
     action_mode : {<<>>, Str("review")},
     auto_approve_everything : BOOLEAN,
     full_auto : BOOLEAN,
     images : ImageLists]
Prompts ==
    {<<>>, Str("hi"), Str("-q"),
     <<Word("fix"), Sp, Quote, Word("it"), Quote>>}

\* shlex.split: words are separated by unquoted whitespace, quotes group
\* and are removed, an unclosed quote raises ValueError
RECURSIVE Shlex(_, _, _, _)
Shlex(s, inquote, word, args) ==
    IF s = <<>>
    THEN IF inquote THEN [ok |-> FALSE, args |-> <<>>]
         ELSE [ok |-> TRUE,
               args |-> IF word = <<>> THEN args ELSE Append(args, word)]
    ELSE CASE Head(s) = Quote -> Shlex(Tail(s), ~inquote, word, args)
           [] Head(s) \in {Sp, Tab} /\ ~inquote ->
                Shlex(Tail(s), inquote, <<>>,
                      IF word = <<>> THEN args ELSE Append(args, word))
           [] OTHER -> Shlex(Tail(s), inquote, Append(word, Head(s)), args)
ShlexSplit(s) == Shlex(s, FALSE, <<>>, <<>>)

\* " " in cli_path
HasSpace(s) == \E i \in DOMAIN s : s[i] = Sp

\* the leading elements of the command, lines 360-370
LeadingArgsSplitFirst(cli) ==
    IF HasSpace(cli.text) THEN ShlexSplit(cli.text)
    ELSE [ok |-> TRUE, args |-> <<cli.text>>]
LeadingArgs(cli) ==
    IF cli.is_file THEN [ok |-> TRUE, args |-> <<cli.text>>]
    ELSE IF HasSpace(cli.text) THEN ShlexSplit(cli.text)
    ELSE [ok |-> TRUE, args |-> <<cli.text>>]

\* for image_path in options.images: command.extend(["-i", image_path])
RECURSIVE ImageArgs(_)
ImageArgs(images) ==
    IF images = <<>> THEN <<>>
    ELSE <<Str("-i"), Head(images)>> \o ImageArgs(Tail(images))

\* the options appended after the leading elements, lines 373-398
OptionArgsQuietLast(opts) ==
    (IF opts.model # <<>> THEN <<Str("-m"), opts.model>> ELSE <<>>)
    \o (IF opts.working_dir # <<>> THEN <<Str("-w"), opts.working_dir>>
        ELSE <<>>)
    \o (IF opts.action_mode # <<>> THEN <<Str("-a"), opts.action_mode>>
        ELSE <<>>)
    \o (IF opts.auto_approve_everything
        THEN <<Str("--dangerously-auto-approve-everything")>> ELSE <<>>)
    \o (IF opts.full_auto THEN <<Str("--full-auto")>> ELSE <<>>)
    \o ImageArgs(opts.images)
    \o <<Str("-q")>>
OptionArgs(opts) ==
    (IF opts.model # <<>> THEN <<Str("-m"), opts.model>> ELSE <<>>)
    \o (IF opts.working_dir # <<>> THEN <<Str("-w"), opts.working_dir>>
        ELSE <<>>)
    \o (IF opts.action_mode # <<>> THEN <<Str("-a"), opts.action_mode>>
        ELSE <<>>)
    \o (IF opts.auto_approve_everything
        THEN <<Str("--dangerously-auto-approve-everything")>> ELSE <<>>)
    \o (IF opts.full_auto THEN <<Str("--full-auto")>> ELSE <<>>)
    \o <<Str("-q")>>
    \o ImageArgs(opts.images)

\* command.append(prompt)
PromptArgsIfAny(p) == IF p = <<>> THEN <<>> ELSE <<p>>
PromptArgs(p) == <<p>>

\* what _build_command returns (with the leading elements it chose), or
\* the exception that leaves it
BuildCommand(cli, opts, p) ==
    IF ~cli.found THEN [kind |-> "raised", exc |-> NotFoundError]
    ELSE IF ~LeadingArgs(cli).ok THEN [kind |-> "raised", exc |-> SplitError]
    ELSE [kind |-> "built",
          leading |-> LeadingArgs(cli).args,
          argv |-> LeadingArgs(cli).args \o OptionArgs(opts) \o PromptArgs(p)]

\* command = self._build_command(prompt, options)
CallBuildCommand ==
    /\ command.kind = "pending"
    /\ command' = BuildCommand(cli_path, build_options, prompt)
    /\ UNCHANGED <<cli_path, build_options, prompt>>
    /\ UNCHANGED <<qvars, tvars, pvars, evars>>

CommandInit ==
    /\ options = [no_retry |-> TRUE, retry_count |-> 0, retry_delay |-> 1,
                  timeout |-> 30]
    /\ QueryIdle
    /\ TransportIdle
    /\ ParseIdle
    /\ ExtrasIdle
    /\ cli_path \in CliPaths
    /\ build_options \in BuildOptionSpace
    /\ prompt \in Prompts
    /\ command = [kind |-> "pending"]
CommandNext == CallBuildCommand
CommandSpec == CommandInit /\ [][CommandNext]_vars

\* --------------------------------------------- working_dir and its alias cwd
\* A directory option: None (written "") or a path.
Dirs == {"", "/work", "/cwd", "/other"}
OptionFields == {"working_dir", "cwd"}

\* CodexOptions.__post_init__: working_dir after construction
PostInitWorkingDir(working_dir, cwd) ==
    IF cwd # "" /\ working_dir = "" THEN cwd ELSE working_dir

\* options = CodexOptions(working_dir=..., cwd=...)
NewOptions ==
    /\ launch.step = "new"
    /\ launch' = [launch EXCEPT
                    !.step = "built",
                    !.working_dir = PostInitWorkingDir(launch.working_dir,
                                                       launch.cwd)]
    /\ UNCHANGED <<qvars, tvars, pvars, cvars>>
    /\ UNCHANGED <<env, resolved, orch, client, kill, pipe>>

\* options.working_dir = d or options.cwd = d: the dataclass is not frozen
\* and __post_init__ does not run again
SetOption ==
    /\ launch.step = "built"
    /\ \E f \in OptionFields, d \in Dirs :
         launch' = IF f = "cwd"
                   THEN [launch EXCEPT !.step = "set", !.cwd = d]
                   ELSE [launch EXCEPT !.step = "set", !.working_dir = d]
    /\ UNCHANGED <<qvars, tvars, pvars, cvars>>
    /\ UNCHANGED <<env, resolved, orch, client, kill, pipe>>

\* the value after "-w" in _build_command ("" when there is no -w)
WorkingDirArg(o) == o.working_dir
\* cwd = options.working_dir or options.cwd in _execute_async
ChildCwd(o) == IF o.working_dir # "" THEN o.working_dir ELSE o.cwd

\* a query with the options: the argv is built and the child spawned
QueryWithOptions ==
    /\ launch.step \in {"built", "set"}
    /\ launch' = [launch EXCEPT !.step = "queried",
                                !.argv_w = WorkingDirArg(launch),
                                !.child_cwd = ChildCwd(launch)]
    /\ UNCHANGED <<qvars, tvars, pvars, cvars>>
    /\ UNCHANGED <<env, resolved, orch, client, kill, pipe>>

FixedOptions ==
    [no_retry |-> TRUE, retry_count |-> 0, retry_delay |-> 1, timeout |-> 30]
WorkdirInit ==
    /\ options = FixedOptions
    /\ QueryIdle /\ TransportIdle /\ ParseIdle /\ CommandIdle
    /\ \E wd \in Dirs, cd \in Dirs :
         launch = [step |-> "new", arg_working_dir |-> wd, arg_cwd |-> cd,
                   working_dir |-> wd, cwd |-> cd,
                   argv_w |-> "", child_cwd |-> ""]
    /\ env = Unused /\ resolved = Unused /\ orch = Unused
    /\ client = Unused /\ kill = Unused /\ pipe = Unused
WorkdirNext == NewOptions \/ SetOption \/ QueryWithOptions
WorkdirSpec == WorkdirInit /\ [][WorkdirNext]_vars

\* ------------------------------------------------- the child's environment
EnvKeys == {"PATH", "HOME", "CODEX_SDK", "CLAIF_PROVIDER"}
ClaifBin == "/claif/bin"
EnvValuesOf(k) ==
    IF k = "PATH" THEN {"/usr/bin", ClaifBin \o ":/usr/bin"}
    ELSE IF k = "HOME" THEN {"/root"}
    ELSE IF k = "CODEX_SDK" THEN {"0", "1"}
    ELSE {"claude", "codex"}
\* os.environ: a map from some of the keys to their values
Environs ==
    {e \in UNION {[D -> UNION {EnvValuesOf(k) : k \in EnvKeys}] :
                    D \in SUBSET EnvKeys} :
        \A k \in DOMAIN e : e[k] \in EnvValuesOf(k)}

\* str(claif_bin) in current_path
HasClaifBin(path) == path \in {ClaifBin \o ":/usr/bin", ClaifBin \o ":"}

\* claif.common.utils.inject_claif_bin_to_path(): a copy of os.environ with
\* the claif bin directory put in front of PATH when the directory exists and
\* PATH does not name it yet
InjectClaifBinToPath(environ, bin_exists) ==
    LET current_path == IF "PATH" \in DOMAIN environ THEN environ["PATH"]
                        ELSE ""
    IN  IF bin_exists /\ ~HasClaifBin(current_path)
        THEN [k \in DOMAIN environ \cup {"PATH"} |->
                IF k = "PATH" THEN ClaifBin \o ":" \o current_path
                ELSE environ[k]]
        ELSE environ

SetDefaultMarkers(e) ==
    [k \in DOMAIN e \cup {"CODEX_SDK", "CLAIF_PROVIDER"} |->
        IF k \in DOMAIN e THEN e[k]
        ELSE IF k = "CODEX_SDK" THEN "1" ELSE "codex"]
\* env["CODEX_SDK"] = "1"; env["CLAIF_PROVIDER"] = "codex"
SetMarkers(e) ==
    [k \in DOMAIN e \cup {"CODEX_SDK", "CLAIF_PROVIDER"} |->
        IF k = "CODEX_SDK" THEN "1"
        ELSE IF k = "CLAIF_PROVIDER" THEN "codex"
        ELSE e[k]]

\* _build_env: the map handed to the child
BuildEnv(environ, importable, bin_exists) ==
    SetMarkers(IF importable THEN InjectClaifBinToPath(environ, bin_exists)
               ELSE environ)

\* one call of _build_env; both branches work on a copy of os.environ
CallBuildEnv ==
    /\ env.step = "ambient"
    /\ env' = [step |-> "built", environ |-> env.environ,
               before |-> env.environ,
               importable |-> env.importable, bin_exists |-> env.bin_exists,
               result |-> BuildEnv(env.environ, env.importable,
                                   env.bin_exists)]
    /\ UNCHANGED <<qvars, tvars, pvars, cvars>>
    /\ UNCHANGED <<launch, resolved, orch, client, kill, pipe>>

EnvInit ==
    /\ options = FixedOptions
    /\ QueryIdle /\ TransportIdle /\ ParseIdle /\ CommandIdle
    /\ \E e \in Environs, i \in BOOLEAN, b \in BOOLEAN :
         env = [step |-> "ambient", environ |-> e, importable |-> i,
                bin_exists |-> b]
    /\ launch = Unused /\ resolved = Unused /\ orch = Unused
    /\ client = Unused /\ kill = Unused /\ pipe = Unused
EnvNext == CallBuildEnv
EnvSpec == EnvInit /\ [][EnvNext]_vars

\* ------------------------------------------- CodexClient: finding the CLI
ExplicitPath == "/explicit/codex"
OnPath == "/usr/bin/codex"
OldOnPath == "/usr/bin/codex-old"
\* common_paths, in the order they are tried
CommonPaths == <<"/usr/local/bin/codex", "/opt/homebrew/bin/codex">>
\* the files a machine may have
FileSystems ==
    SUBSET ({ExplicitPath, OnPath, OldOnPath}
              \cup {CommonPaths[i] : i \in DOMAIN CommonPaths})
\* the codex_path argument; "" is None
CodexPaths == {"", ExplicitPath}

\* shutil.which(name): the file on PATH, or "" for None
Which(path, files) == IF path \in files THEN path ELSE ""

FoundPath(p) == [path |-> p]
OldCodexError ==
    [error |-> "RuntimeError",
     text |-> "Found old Node.js-based codex CLI, but claif_cod now requires the new Rust-based codex. Please install it from: https://github.com/openai/codex"]
CodexNotFoundError ==
    [error |-> "RuntimeError",
     text |-> "New Rust-based codex CLI not found. Please install it from: https://github.com/openai/codex or specify the path explicitly."]

\* CodexClient._find_codex_cli
FindCodexCli(files) ==
    LET existing == {i \in DOMAIN CommonPaths : CommonPaths[i] \in files}
    IN  IF Which(OnPath, files) # "" THEN FoundPath(Which(OnPath, files))
        ELSE IF existing # {}
             THEN FoundPath(CommonPaths[CHOOSE i \in existing :
                                          \A j \in existing : i <= j])
        ELSE IF Which(OldOnPath, files) # "" THEN OldCodexError
        ELSE CodexNotFoundError

\* self.codex_path = codex_path or self._find_codex_cli()
ClientCodexPath(codex_path, files) ==
    IF codex_path # "" THEN FoundPath(codex_path) ELSE FindCodexCli(files)

\* CodexClient(codex_path=...)
NewCodexClient ==
    /\ resolved.step = "new"
    /\ resolved' = [step |-> "done", codex_path |-> resolved.codex_path,
                    files |-> resolved.files,
                    result |-> ClientCodexPath(resolved.codex_path,
                                               resolved.files)]
    /\ UNCHANGED <<qvars, tvars, pvars, cvars>>
    /\ UNCHANGED <<launch, env, orch, client, kill, pipe>>

ResolveInit ==
    /\ options = FixedOptions
    /\ QueryIdle /\ TransportIdle /\ ParseIdle /\ CommandIdle
    /\ \E c \in CodexPaths, f \in FileSystems :
         resolved = [step |-> "new", codex_path |-> c, files |-> f]
    /\ launch = Unused /\ env = Unused /\ orch = Unused
    /\ client = Unused /\ kill = Unused /\ pipe = Unused
ResolveNext == NewCodexClient
ResolveSpec == ResolveInit /\ [][ResolveNext]_vars

\* ------------------------------- ClientOrchestrator: auto-install fallback
\* Resolving -> Installing -> Retrying -> Done | Fatal
QueryPrompts == {"Test", "Hello", ""}
\* how one run of the query through the transport ends
RunOutcomes == {"ok", "missing", "error"}
\* what the install collaborator reports
InstallOutcomes == {"installed", "failed"}

MissingError == [error |-> "NotFound", text |-> "codex not found"]
OtherError == [error |-> "ProviderError", text |-> "Authentication failed"]
InstallFailedError ==
    [error |-> "ProviderError",
     text |-> "codex not found; auto-install failed: Installation failed due to permissions"]
Completed(n) == [messages |-> n]

\* the state entered on an executable-missing failure
AfterMissingAlways(step, installer) ==
    IF installer THEN "Installing" ELSE "Fatal"
AfterMissing(step, installer) ==
    IF step = "Resolving" /\ installer THEN "Installing" ELSE "Fatal"

\* how connecting the transport ends
ConnectOutcomes == {"ok", "missing", "error"}

\* a run of the query starts: the original call (Resolving) or the retry
\* (Retrying) connects the transport
Connect ==
    /\ orch.step \in {"Resolving", "Retrying"}
    /\ ~orch.connected
    /\ \E o \in ConnectOutcomes :
         LET next == IF o = "ok" THEN orch.step
                     ELSE IF o = "missing"
                          THEN AfterMissing(orch.step, orch.installer)
                     ELSE "Fatal"
         IN  orch' = [orch EXCEPT
                        !.step = next,
                        !.connected = (o = "ok"),
                        !.runs = @ + 1,
                        !.log = IF o = "ok" THEN @
                                ELSE Append(@, [ev |-> "query", out |-> o]),
                        !.result = IF next = "Fatal"
                                   THEN IF o = "missing" THEN MissingError
                                        ELSE OtherError
                                   ELSE orch.result]
    /\ UNCHANGED <<qvars, tvars, pvars, cvars>>
    /\ UNCHANGED <<launch, env, resolved, client, kill, pipe>>

\* the connected run relays one message of the transport to the caller
Relay ==
    /\ orch.step \in {"Resolving", "Retrying"}
    /\ orch.connected
    /\ orch.delivered < MaxLines
    /\ orch' = [orch EXCEPT !.delivered = @ + 1]
    /\ UNCHANGED <<qvars, tvars, pvars, cvars>>
    /\ UNCHANGED <<launch, env, resolved, client, kill, pipe>>

\* the connected run ends and the transport is disconnected; the executable
\* can turn out to be missing only before the first message
RunQuery ==
    /\ orch.step \in {"Resolving", "Retrying"}
    /\ orch.connected
    /\ \E o \in RunOutcomes :
         LET next == IF o = "ok" THEN "Done"
                     ELSE IF o = "missing"
                          THEN AfterMissing(orch.step, orch.installer)
                     ELSE "Fatal"
         IN  /\ o = "missing" => orch.delivered = 0
             /\ orch' = [orch EXCEPT
                        !.step = next,
                        !.connected = FALSE,
                        !.log = Append(@, [ev |-> "query", out |-> o]),
                        !.result = IF next = "Done" THEN Completed(orch.delivered)
                                   ELSE IF next = "Installing" THEN orch.result
                                   ELSE IF o = "missing" THEN MissingError
                                   ELSE OtherError]
    /\ UNCHANGED <<qvars, tvars, pvars, cvars>>
    /\ UNCHANGED <<launch, env, resolved, client, kill, pipe>>

\* the install collaborator is invoked
Install ==
    /\ orch.step = "Installing"
    /\ \E r \in InstallOutcomes :
         orch' = [orch EXCEPT
                    !.step = IF r = "installed" THEN "Retrying" ELSE "Fatal",
                    !.installs = @ + 1,
                    !.log = Append(@, [ev |-> "install", out |-> r]),
                    !.result = IF r = "installed" THEN orch.result
                               ELSE InstallFailedError]
    /\ UNCHANGED <<qvars, tvars, pvars, cvars>>
    /\ UNCHANGED <<launch, env, resolved, client, kill, pipe>>

InstallInit ==
    /\ options = FixedOptions
    /\ QueryIdle /\ TransportIdle /\ ParseIdle /\ CommandIdle
    /\ \E i \in BOOLEAN, q \in QueryPrompts :
         orch = [step |-> "Resolving", installer |-> i, prompt |-> q,
                 connected |-> FALSE, installs |-> 0, runs |-> 0, delivered |-> 0, log |-> <<>>,
                 result |-> [pending |-> TRUE]]
    /\ launch = Unused /\ env = Unused /\ resolved = Unused
    /\ client = Unused /\ kill = Unused /\ pipe = Unused
InstallNext == Connect \/ Relay \/ RunQuery \/ Install
InstallSpec == InstallInit /\ [][InstallNext]_vars

\* ------------------------------------- ChatCompletions.create (OpenAI style)
ClientDefaultTimeout == 600
\* the timeout argument of create; NoneTimeout stands for NOT_GIVEN
CreateTimeouts == {NoneTimeout, 5}
Stdouts ==
    {l \o b \o r : l \in Pads, r \in Pads,
                   b \in {<<>>, <<Word("Hello")>>,
                          <<Word("Hello"), Sp, Word("world")>>}}
\* what subprocess.run(cmd, capture_output=True, text=True, timeout=...,
\* check=True) meets
CliRuns ==
    {[kind |-> "exit", code |-> 0, stdout |-> o, stderr |-> ""] : o \in Stdouts}
      \cup {[kind |-> "exit", code |-> 1, stdout |-> <<>>, stderr |-> e] :
              e \in Stderrs}
      \cup {[kind |-> "exit", code |-> 1, stdout |-> <<Word("Hello")>>,
             stderr |-> "Invalid API key"]}
      \cup {[kind |-> "timeout"], [kind |-> "missing"]}

\* use_timeout = self.parent.timeout if timeout is NOT_GIVEN else timeout
UseTimeout(timeout) ==
    IF timeout = NoneTimeout THEN ClientDefaultTimeout ELSE timeout

ChatCompletion(content) ==
    [object |-> "chat.completion",
     choices |-> <<[index |-> 0, role |-> "assistant", content |-> content,
                    finish_reason |-> "stop"]>>]
ClientRaised(type, text) == [exc |-> type, text |-> text]

\* ChatCompletions._create_sync
CreateSyncUnchecked(run, timeout) ==
    IF run.kind = "timeout"
    THEN ClientRaised("TimeoutError",
                      "Codex CLI timed out after "
                        \o ToString(UseTimeout(timeout)) \o " seconds")
    ELSE IF run.kind = "missing"
    THEN ClientRaised("RuntimeError",
                      "Codex CLI not found at codex. Please install the new Rust-based codex CLI.")
    ELSE ChatCompletion(Strip(run.stdout))
CreateSync(run, timeout) ==
    IF run.kind = "timeout"
    THEN ClientRaised("TimeoutError",
                      "Codex CLI timed out after "
                        \o ToString(UseTimeout(timeout)) \o " seconds")
    ELSE IF run.kind = "missing"
    THEN ClientRaised("RuntimeError",
                      "Codex CLI not found at codex. Please install the new Rust-based codex CLI.")
    ELSE IF run.code # 0
    THEN ClientRaised("RuntimeError", "Codex CLI error: " \o run.stderr)
    ELSE ChatCompletion(Strip(run.stdout))

Chunk(id, delta, finish_reason) ==
    [object |-> "chat.completion.chunk", id |-> id, delta |-> delta,
     finish_reason |-> finish_reason]
\* the chunks _create_stream yields for a response, in its order
StreamChunksContentFirst(response, chunk_id) ==
    <<Chunk(chunk_id, [content |-> response.choices[1].content], "None"),
      Chunk(chunk_id, [role |-> "assistant", content |-> <<>>], "None"),
      Chunk(chunk_id, [empty |-> TRUE], "stop")>>
StreamChunks(response, chunk_id) ==
    <<Chunk(chunk_id, [role |-> "assistant", content |-> <<>>], "None"),
      Chunk(chunk_id, [content |-> response.choices[1].content], "None"),
      Chunk(chunk_id, [empty |-> TRUE], "stop")>>

\* create(stream not True): _create_sync runs the CLI
CreateCall ==
    /\ client.step = "call" /\ ~client.stream
    /\ LET r == CreateSync(client.run, client.timeout)
       IN  client' = [client EXCEPT
                        !.step = IF "exc" \in DOMAIN r THEN "raised"
                                 ELSE "returned",
                        !.result = r]
    /\ UNCHANGED <<qvars, tvars, pvars, cvars>>
    /\ UNCHANGED <<launch, env, resolved, orch, kill, pipe>>

\* create(stream=True): the generator is returned, nothing has run yet
CreateStreamCall ==
    /\ client.step = "call" /\ client.stream
    /\ client' = [client EXCEPT !.step = "generator"]
    /\ UNCHANGED <<qvars, tvars, pvars, cvars>>
    /\ UNCHANGED <<launch, env, resolved, orch, kill, pipe>>

\* next() on the generator: the first one runs _create_sync and either
\* raises or yields the first chunk; the fourth ends the iteration
StreamNext ==
    /\ client.step \in {"generator", "streaming"}
    /\ IF client.step = "generator"
       THEN LET r == CreateSync(client.run, client.timeout)
            IN  IF "exc" \in DOMAIN r
                THEN client' = [client EXCEPT !.step = "raised", !.result = r]
                ELSE client' = [client EXCEPT
                                  !.step = "streaming",
                                  !.pending = Tail(StreamChunks(r, client.id)),
                                  !.yielded = <<Head(StreamChunks(r, client.id))>>]
       ELSE IF client.pending = <<>>
            THEN client' = [client EXCEPT !.step = "exhausted"]
            ELSE client' = [client EXCEPT
                              !.pending = Tail(@),
                              !.yielded = Append(@, Head(client.pending))]
    /\ UNCHANGED <<qvars, tvars, pvars, cvars>>
    /\ UNCHANGED <<launch, env, resolved, orch, kill, pipe>>

ClientInit ==
    /\ options = FixedOptions
    /\ QueryIdle /\ TransportIdle /\ ParseIdle /\ CommandIdle
    /\ \E st \in BOOLEAN, r \in CliRuns, t \in CreateTimeouts :
         client = [step |-> "call", stream |-> st, run |-> r, timeout |-> t,
                   id |-> "chatcmpl-1", result |-> [pending |-> TRUE],
                   pending |-> <<>>, yielded |-> <<>>]
    /\ launch = Unused /\ env = Unused /\ resolved = Unused
    /\ orch = Unused /\ kill = Unused /\ pipe = Unused
ClientNext == CreateCall \/ CreateStreamCall \/ StreamNext
ClientSpec == ClientInit /\ [][ClientNext]_vars

\* ------------------------------ terminate, grace period, kill, final wait
\* the two routines that stop a child gracefully
Routines == {"cleanup", "disconnect"}
CleanupGrace == 2
DisconnectGrace == 5
\* asyncio.wait_for(process.wait(), timeout=...)
GraceSeconds(routine) ==
    IF routine = "cleanup" THEN CleanupGrace ELSE DisconnectGrace

KillReturn(e) == [kill EXCEPT !.pc = "returned", !.log = Append(@, e)]

\* if process.returncode is None: process.terminate(); otherwise nothing is
\* done. An exception of terminate() is caught and logged.
StopTerminate ==
    /\ kill.pc = "start"
    /\ \/ /\ kill.child = "exited"
          /\ kill' = [kill EXCEPT !.pc = "returned"]
       \/ /\ kill.child = "running"
          /\ \/ kill' = [kill EXCEPT !.pc = "grace",
                                     !.log = Append(@, "terminate")]
             \/ kill' = KillReturn("terminate raised")
    /\ UNCHANGED <<qvars, tvars, pvars, cvars>>
    /\ UNCHANGED <<launch, env, resolved, orch, client, pipe>>

\* the child exits: by itself, on the terminate (-15), or on the kill (-9)
StopChildExits ==
    /\ kill.pc # "returned"
    /\ kill.child \in {"running", "killed"}
    /\ \E rc \in IF kill.child = "killed" THEN {"-9"}
                 ELSE IF kill.log = <<>> THEN {"0", "1"}
                 ELSE {"0", "1", "-15"} :
         kill' = [kill EXCEPT !.child = "exited", !.returncode = rc]
    /\ UNCHANGED <<qvars, tvars, pvars, cvars>>
    /\ UNCHANGED <<launch, env, resolved, orch, client, pipe>>

\* wait_for(process.wait(), grace) returns when the child has exited
StopGraceWaitReturns ==
    /\ kill.pc = "grace"
    /\ kill.child = "exited"
    /\ kill' = KillReturn("wait")
    /\ UNCHANGED <<qvars, tvars, pvars, cvars>>
    /\ UNCHANGED <<launch, env, resolved, orch, client, pipe>>

\* a second of the grace period passes with the child still running
StopGraceTick ==
    /\ kill.pc = "grace"
    /\ kill.child = "running"
    /\ kill.waited < GraceSeconds(kill.routine)
    /\ kill' = [kill EXCEPT !.waited = @ + 1]
    /\ UNCHANGED <<qvars, tvars, pvars, cvars>>
    /\ UNCHANGED <<launch, env, resolved, orch, client, pipe>>

\* wait_for raises asyncio.TimeoutError: the child outlived the grace period
StopGraceExpires ==
    /\ kill.pc = "grace"
    /\ kill.child = "running"
    /\ kill.waited = GraceSeconds(kill.routine)
    /\ kill' = [kill EXCEPT
                  !.pc = "kill",
                  !.log = Append(@, "grace expired")]
    /\ UNCHANGED <<qvars, tvars, pvars, cvars>>
    /\ UNCHANGED <<launch, env, resolved, orch, client, pipe>>

\* os.killpg(os.getpgid(pid), SIGKILL) with ProcessLookupError suppressed, or
\* process.kill() when os.name == "nt"; any other exception, and
\* ProcessLookupError of process.kill(), leaves the routine through its
\* except Exception
StopKill ==
    /\ kill.pc = "kill"
    /\ \/ /\ kill.child = "running"
          /\ \/ kill' = [kill EXCEPT !.pc = "wait", !.child = "killed",
                                     !.log = Append(@, "kill")]
             \/ kill' = KillReturn("kill raised")
       \/ /\ kill.child = "exited"
          /\ IF kill.nt
             THEN kill' = KillReturn("kill raised")
             ELSE kill' = [kill EXCEPT !.pc = "wait",
                                       !.log = Append(@, "kill")]
    /\ UNCHANGED <<qvars, tvars, pvars, cvars>>
    /\ UNCHANGED <<launch, env, resolved, orch, client, pipe>>

\* await process.wait() after the kill
StopFinalWait ==
    /\ kill.pc = "wait"
    /\ kill.child = "exited"
    /\ kill' = KillReturn("wait")
    /\ UNCHANGED <<qvars, tvars, pvars, cvars>>
    /\ UNCHANGED <<launch, env, resolved, orch, client, pipe>>

KillInit ==
    /\ options = FixedOptions
    /\ QueryIdle /\ TransportIdle /\ ParseIdle /\ CommandIdle
    /\ \E r \in Routines, n \in BOOLEAN, rc \in {"None", "0", "1"} :
         kill = [pc |-> "start", routine |-> r, nt |-> n,
                 child |-> IF rc = "None" THEN "running" ELSE "exited",
                 returncode |-> rc, waited |-> 0, log |-> <<>>]
    /\ launch = Unused /\ env = Unused /\ resolved = Unused
    /\ orch = Unused /\ client = Unused /\ pipe = Unused
KillNext ==
    \/ StopTerminate \/ StopChildExits \/ StopGraceWaitReturns
    \/ StopGraceTick \/ StopGraceExpires \/ StopKill \/ StopFinalWait
KillSpec == KillInit /\ [][KillNext]_vars

\* --------------------------------------- the child's stdout and stderr pipes
\* What stays buffered of a stream nobody reads: the OS pipe plus the
\* StreamReader, which stops reading the pipe beyond twice its limit. Counted
\* in writes of the child.
PipeCapacity == 2
\* the writes of a child before it closes its streams and exits
ChildScripts ==
    UNION {[1..n -> {"stdout", "stderr"}] : n \in 0..MaxWrites}

\* the child writes a line to stdout; it blocks while the pipe is full
ChildWritesStdout ==
    /\ pipe.script # <<>> /\ Head(pipe.script) = "stdout"
    /\ pipe.out_buf < PipeCapacity
    /\ pipe' = [pipe EXCEPT !.script = Tail(@), !.out_buf = @ + 1]
    /\ UNCHANGED <<qvars, tvars, pvars, cvars>>
    /\ UNCHANGED <<launch, env, resolved, orch, client, kill>>

\* the child writes to stderr; it blocks while the pipe is full
ChildWritesStderr ==
    /\ pipe.script # <<>> /\ Head(pipe.script) = "stderr"
    /\ pipe.err_buf < PipeCapacity
    /\ pipe' = [pipe EXCEPT !.script = Tail(@), !.err_buf = @ + 1]
    /\ UNCHANGED <<qvars, tvars, pvars, cvars>>
    /\ UNCHANGED <<launch, env, resolved, orch, client, kill>>

\* the child has written everything: its streams close and it exits
ChildFinishes ==
    /\ pipe.child = "running" /\ pipe.script = <<>>
    /\ pipe' = [pipe EXCEPT !.child = "exited"]
    /\ UNCHANGED <<qvars, tvars, pvars, cvars>>
    /\ UNCHANGED <<launch, env, resolved, orch, client, kill>>

\* line_bytes = await process.stdout.readline() returns a line
PipeReadLine ==
    /\ pipe.pc = "readline" /\ pipe.out_buf > 0
    /\ pipe' = [pipe EXCEPT !.out_buf = @ - 1, !.yielded = @ + 1]
    /\ UNCHANGED <<qvars, tvars, pvars, cvars>>
    /\ UNCHANGED <<launch, env, resolved, orch, client, kill>>

\* readline returns b"" at end of file: the loop is left
PipeReadEof ==
    /\ pipe.pc = "readline" /\ pipe.out_buf = 0 /\ pipe.child = "exited"
    /\ pipe' = [pipe EXCEPT !.pc = "wait"]
    /\ UNCHANGED <<qvars, tvars, pvars, cvars>>
    /\ UNCHANGED <<launch, env, resolved, orch, client, kill>>

\* returncode = await wait_for(process.wait(), ...): zero yields the
\* ResultMessage, non-zero reads the rest of stderr and raises
PipeWait ==
    /\ pipe.pc = "wait" /\ pipe.child = "exited"
    /\ IF pipe.returncode = 0
       THEN pipe' = [pipe EXCEPT !.pc = "done", !.outcome = "ResultMessage"]
       ELSE pipe' = [pipe EXCEPT !.pc = "done", !.outcome = "TransportError",
                                 !.err_buf = 0]
    /\ UNCHANGED <<qvars, tvars, pvars, cvars>>
    /\ UNCHANGED <<launch, env, resolved, orch, client, kill>>

PipeInit ==
    /\ options = FixedOptions
    /\ QueryIdle /\ TransportIdle /\ ParseIdle /\ CommandIdle
    /\ \E sc \in ChildScripts, rc \in ExitCodes :
         pipe = [pc |-> "readline", child |-> "running", script |-> sc,
                 returncode |-> rc, out_buf |-> 0, err_buf |-> 0,
                 yielded |-> 0, outcome |-> "None"]
    /\ launch = Unused /\ env = Unused /\ resolved = Unused
    /\ orch = Unused /\ client = Unused /\ kill = Unused
PipeNext ==
    \/ ChildWritesStdout \/ ChildWritesStderr \/ ChildFinishes
    \/ PipeReadLine \/ PipeReadEof \/ PipeWait
PipeSpec == PipeInit /\ [][PipeNext]_vars

\* ------------------------------------------------------------------ claims
ResultIdx == {i \in DOMAIN stream : stream[i].type = "ResultMessage"}
ErrorIdx == {i \in ResultIdx : stream[i].error}
Terminated == pc \in {"done", "raised"}
RetryEnabled == ~options.no_retry /\ options.retry_count > 0
LastOutcome == history[Len(history)]

\* C1: when send_query has ended, its stream is zero or more CodexMessage
\* followed by exactly one ResultMessage, which is the last element.
C1_OneTerminalResult ==
    Terminated =>
        /\ Len(stream) >= 1
        /\ ResultIdx = {Len(stream)}

\* C2: send_query never raises to its consumer; a failed attempt that ends
\* the query is delivered as one terminal error ResultMessage.
C2_NeverRaises ==
    /\ pc # "raised"
    /\ (pc = "done" /\ LastOutcome # NoExc) =>
           /\ ErrorIdx = {Len(stream)}
           /\ ResultIdx = ErrorIdx

\* C3: with no_retry set or retry_count <= 0, _execute_async runs exactly
\* once and a failure of it yields exactly one error ResultMessage whose
\* message is the text of the error.
C3_NoRetrySingleAttempt ==
    (options.no_retry \/ options.retry_count <= 0) =>
        /\ calls <= 1
        /\ slept = <<>>
        /\ pc = "done" => calls = 1
        /\ (pc = "done" /\ LastOutcome # NoExc) =>
               /\ ResultIdx = {Len(stream)}
               /\ stream[Len(stream)].error
               /\ stream[Len(stream)].message = history[1].text
C3_Witness ==
    /\ options.no_retry /\ options.retry_count >= 2
    /\ pc = "done" /\ calls = 1
    /\ history[1] = ExitError(1, "Invalid API key")
    /\ Len(stream) = 2
    /\ stream[2].message = "Codex command failed (exit code 1): Invalid API key"

\* C4: with retries enabled the controller stops at the first successful
\* attempt; when retry_count >= 3 and two retryable failures are followed by
\* a success, _execute_async ran exactly 3 times, the stream ends with the
\* third attempt's events and success ResultMessage, and there is no error
\* ResultMessage.
C4_StopsAtFirstSuccess ==
    RetryEnabled =>
        /\ \A i \in DOMAIN history :
              history[i] = NoExc =>
                  /\ i = Len(history) /\ calls = i
                  /\ pc \in {"exec", "done"}
                  /\ ErrorIdx = {}
                  /\ stream[Len(stream)] = SuccessResult(i)
        /\ ( /\ options.retry_count >= 3
             /\ Len(history) >= 3
             /\ history[1].type = "TransportError"
             /\ history[2].type = "TransportError"
             /\ history[3] = NoExc ) =>
               /\ calls = 3
               /\ ResultIdx = {Len(stream)}
               /\ \A j, k \in DOMAIN stream :
                      (j < k /\ stream[j].attempt = 3) => stream[k].attempt = 3
C4_Witness ==
    /\ RetryEnabled /\ options.retry_count >= 3
    /\ pc = "done" /\ calls = 3 /\ Len(history) = 3
    /\ history[1] = TimedOutError(options)
    /\ history[2] = ExitError(1, "")
    /\ history[3] = NoExc
    /\ \E j \in DOMAIN stream : stream[j] = CodexMessageEv(3, 2)
    /\ stream[Len(stream)] = SuccessResult(3)

\* C5: with retries enabled, a first attempt failing with a message that
\* matches no retryable pattern ('Invalid API key') is fatal: one
\* invocation, no backoff, one error ResultMessage carrying the message.
C5_NonRetryableIsFatal ==
    ( /\ RetryEnabled
      /\ Len(history) >= 1
      /\ history[1] = ExitError(1, "Invalid API key") ) =>
        /\ calls = 1
        /\ slept = <<>>
        /\ pc = "done" =>
              /\ ResultIdx = {Len(stream)}
              /\ stream[Len(stream)].error

\* C6: when the executable cannot be located the failure is terminal:
\* exactly one attempt whatever retry_count is, no child, no backoff.
C6_NotFoundIsTerminal ==
    (Len(history) >= 1 /\ history[1] = NotFoundError) =>
        /\ calls = 1
        /\ spawned = 0
        /\ slept = <<>>

C9_MessageStatesAttemptsMade ==
    (RetryEnabled /\ pc = "done" /\ ErrorIdx # {}) =>
        stream[Len(stream)].message =
            "Codex query failed after " \o ToString(calls)
                \o " retries: " \o LastOutcome.text
\* C9 (amended): on exhaustion exactly one error ResultMessage is yielded;
\* its message states retry_count (the number of retries, one less than the
\* attempts made) and the text of the error raised by the last attempt.
C9_MessageStatesRetriesAndLastError ==
    (RetryEnabled /\ pc = "done" /\ ErrorIdx # {}) =>
        /\ ErrorIdx = {Len(stream)}
        /\ ResultIdx = ErrorIdx
        /\ calls = options.retry_count + 1
        /\ stream[Len(stream)].message =
              "Codex query failed after " \o ToString(calls - 1)
                  \o " retries: " \o LastOutcome.text
C9_Witness ==
    /\ RetryEnabled /\ pc = "done" /\ ErrorIdx # {}
    /\ options.retry_count = 2 /\ calls = 3
    /\ history[1] = NotFoundError
    /\ history[3] = TimedOutError(options)
    /\ options.timeout = 0
    /\ stream[Len(stream)].message =
          "Codex query failed after 2 retries: Command timed out after 300s"

\* C10: with retries enabled, an attempt whose child exits with status 0
\* without any CodexMessage is a failure, so no success ResultMessage is
\* yielded for an attempt that yielded no CodexMessage.
C10_EmptySuccessIsFailure ==
    RetryEnabled =>
        \A i \in DOMAIN stream :
            (stream[i].type = "ResultMessage" /\ ~stream[i].error) =>
                \E j \in 1 .. (i - 1) :
                    /\ stream[j].type = "CodexMessage"
                    /\ stream[j].attempt = stream[i].attempt

ChildAlive == process.state \in {"running", "hung"}

\* C11: a child that does not exit within the timeout is killed, awaited and
\* reported as timed out, also when it keeps its stdout open: whenever the
\* child of the running attempt has stopped for good, the attempt's timeout
\* step is enabled, so that no attempt waits forever.
C11_SilentChildIsKilled ==
    (pc = "exec" /\ process.state = "hung") => ENABLED ExecWaitTimeout

\* C12: whenever _execute_async has finished (by its success ResultMessage
\* or by an exception), the child it spawned has exited.
C12_ChildExitedOnReturn ==
    (calls >= 1 /\ epc \in {"idle", "end"}) => ~ChildAlive

\* C13: when the consumer closes the generator or the task is cancelled at a
\* suspension point, the child running at that moment is terminated.
C13_CancelTerminatesChild ==
    pc = "cancelled" => ~ChildAlive

\* C14: at most one child of a send_query call is alive at a time: no child
\* is spawned and no backoff delay starts while the child of the previous
\* attempt is still running.
C14_OneChildAtATime ==
    [][(spawned' = spawned + 1 \/ pc' = "sleep") => ~ChildAlive]_vars

\* C15: two concurrent send_query calls on one transport are independent: a
\* step of one call leaves the other call's child alone, a disconnect made
\* when one call has ended terminates no child of a call that is still
\* running, and a disconnect made after both calls ended leaves no child
\* running.
C15_CallsIndependent ==
    [][ /\ \A c, d \in Callers :
              (c # d /\ call_pc'[c] # call_pc[c]) => children'[d] = children[d]
        /\ disconnects' = disconnects + 1 =>
              /\ \A c \in Callers :
                    (children[c] = "running" /\ children'[c] # "running")
                        => call_pc[c] = "ended"
              /\ (\A c \in Callers : call_pc[c] = "ended")
                    => (\A c \in Callers : children'[c] # "running") ]_vars

\* C16: disconnect never raises and always leaves self.process None,
\* whatever state the process is in and whether or not terminate/kill fail;
\* a disconnect made while self.process is None (as right after another
\* disconnect) sends no signal and changes no child.
C16_DisconnectIdempotent ==
    [][ disconnects' = disconnects + 1 =>
          /\ transport_process' = 0
          /\ disconnect_exc' = NoExc
          /\ transport_process = 0 =>
                (signals' = signals /\ children' = children) ]_vars
C16_Witness ==
    /\ disconnects = 2
    /\ transport_process = 0
    /\ call_pc = [c \in Callers |-> IF c = 1 THEN "ended" ELSE "streaming"]
    /\ children[2] = "running"
    /\ signals = <<Signal(1, "SIGKILL", 1), Signal(2, "SIGTERM", "disconnect")>>

\* The events of attempt n in the consumer's stream, in stream order.
OfAttempt(n) == SelectSeq(stream, LAMBDA ev : ev.attempt = n)

\* C17: within one attempt the events reach the consumer in the order the
\* lines were read, one event per line at most, and the attempt's
\* ResultMessage comes after every CodexMessage of the attempt.
C17_EventsInLineOrder ==
    \A i, j \in DOMAIN stream :
        (i < j /\ stream[i].attempt = stream[j].attempt) =>
            /\ stream[i].type = "CodexMessage"
            /\ stream[j].type = "CodexMessage" => stream[i].line < stream[j].line
C17_Witness ==
    /\ Len(stream) >= 3
    /\ \E i \in DOMAIN stream :
         /\ i + 2 \in DOMAIN stream
         /\ stream[i].type = "CodexMessage"
         /\ stream[i + 1].type = "CodexMessage"
         /\ stream[i + 2].type = "ResultMessage"
         /\ stream[i].attempt = stream[i + 2].attempt
         /\ stream[i + 1].attempt = stream[i + 2].attempt

\* the attempts started so far (a single attempt without tenacity is 0)
Attempts == IF attempt_number = 0 THEN {0} ELSE 1 .. attempt_number

\* C18 as stated: when send_query has returned, every attempt of the query,
\* not only the last, has exactly one ResultMessage of its own.
C18_EveryAttemptClosed ==
    pc = "done" =>
        \A n \in Attempts :
            Cardinality({i \in ResultIdx : stream[i].attempt = n}) = 1

\* C18 amended: a stream never holds more than one ResultMessage; it is the
\* last element and belongs to the last attempt, so an attempt that failed
\* and was retried has none; when send_query returns there is exactly one.
C18_OnlyLastAttemptClosed ==
    /\ Cardinality(ResultIdx) <= 1
    /\ \A i \in ResultIdx : i = Len(stream) /\ stream[i].attempt = attempt_number
    /\ pc = "done" => Cardinality(ResultIdx) = 1
C18_Witness ==
    /\ pc = "done"
    /\ attempt_number >= 2
    /\ \E i \in DOMAIN stream :
         stream[i].type = "CodexMessage" /\ stream[i].attempt = 1
    /\ stream[Len(stream)].type = "ResultMessage"
    /\ stream[Len(stream)].attempt = attempt_number

\* C19: output is streamed: while an attempt is reading lines or waiting
\* for the exit, every event it produced so far is already in the
\* consumer's stream, so the event of line k is delivered before line k+1
\* is read and before the exit is awaited.
C19_DeliveredBeforeNextLine ==
    (pc = "exec" /\ epc \in {"read", "wait", "end"}) =>
        /\ OfAttempt(attempt_number) = results
        /\ \A i \in DOMAIN results :
              results[i].type = "CodexMessage" => results[i].line <= lines_read
C19_Witness ==
    /\ pc = "exec" /\ epc = "read"
    /\ process.state = "running"
    /\ lines_read = 1
    /\ Len(results) = 1
    /\ stream # <<>>
    /\ stream[Len(stream)] = CodexMessageEv(attempt_number, 1)

\* C20: no content of a stdout line makes an attempt fail: no
\* _execute_async invocation ends with the error of a line that could not
\* be turned into a message.
C20_NoLineFailsAttempt ==
    \A i \in DOMAIN history : history[i] # WrapError(LineError)

\* C26: an attempt whose child exits with a non-zero status raises a
\* TransportError naming the exit code and, when stderr is not empty, the
\* stderr text; it yields no success ResultMessage and the CodexMessages it
\* has yielded stay in the stream.
C26_NonZeroExitRaises ==
    [][ (pc = "exec" /\ epc = "wait" /\ process.state = "exited"
           /\ process.returncode # 0 /\ epc' # epc) =>
          /\ outcome' =
               [type |-> "TransportError",
                text |-> "Codex command failed (exit code "
                           \o ToString(process.returncode) \o ")"
                           \o (IF process.stderr = "" THEN ""
                               ELSE ": " \o process.stderr)]
          /\ history' = Append(history, outcome')
          /\ pc' = "failed"
          /\ stream' = stream ]_vars
C26_Witness ==
    /\ pc = "failed"
    /\ outcome = [type |-> "TransportError",
                  text |-> "Codex command failed (exit code 1): Invalid API key"]
    /\ stream # <<>>
    /\ stream[Len(stream)] = CodexMessageEv(attempt_number, lines_read)

\* C27 as stated: the n-th delay slept, between failed attempt n and attempt
\* n+1, is min(retry_delay * 2^n, retry_delay * 10).
C27_DelayDoublesFromTwice ==
    \A n \in DOMAIN slept :
        slept[n] = IF options.retry_delay * 2 ^ n <= options.retry_delay * 10
                   THEN options.retry_delay * 2 ^ n
                   ELSE options.retry_delay * 10

\* C27 amended: the delay slept after failed attempt n is
\* min(retry_delay * 2^(n-1), retry_delay * 10), so the first delay is
\* retry_delay itself; a delay is slept only after an attempt failed with a
\* TransportError, once per failed attempt that is retried.
C27_DelayDoublesFromBase ==
    [][ slept' # slept =>
          /\ pc = "failed"
          /\ outcome.type = "TransportError"
          /\ attempt_number >= 1
          /\ Len(slept) = attempt_number - 1
          /\ slept' = Append(slept,
                IF options.retry_delay * 2 ^ (attempt_number - 1)
                      <= options.retry_delay * 10
                THEN options.retry_delay * 2 ^ (attempt_number - 1)
                ELSE options.retry_delay * 10) ]_vars
C27_Witness ==
    /\ Len(slept) >= 5
    /\ slept[1] = options.retry_delay
    /\ slept[4] = options.retry_delay * 8
    /\ slept[5] = options.retry_delay * 10

\* The JSON documents on the line being handled (none or one).
LineDocs == {line[i].doc : i \in {k \in DOMAIN line : line[k].tok = "json"}}
\* The message records with a list of blocks among them.
MessageDocs ==
    {d \in LineDocs : d.j = "object" /\ d.type = "message"
                        /\ d.content.has = "list"}
Recognized == {"output_text", "code", "error"}

\* C21: a line that is not blank and cannot be decoded as a structured
\* record (text that is not JSON, JSON that is not an object) yields exactly
\* one CodexMessage of role assistant whose content is one TextBlock holding
\* the entire line verbatim.
C21_PlainLineVerbatim ==
    (/\ parsed.kind # "pending"
     /\ \/ \E i \in DOMAIN line : line[i].tok = "word"
        \/ \E d \in LineDocs : d.j # "object") =>
        parsed = [kind |-> "yielded",
                  event |-> [ev |-> "CodexMessage", role |-> "assistant",
                             content |-> <<[block |-> "TextBlock",
                                            text |-> line]>>]]

\* C22: a message record with a list of blocks yields one CodexMessage with
\* the record's role (assistant when it has none) and one output block per
\* recognized input block, in the same order: output_text -> TextBlock(text),
\* code -> CodeBlock(language, content), error -> ErrorBlock(error_message).
C22_BlocksMappedByTag ==
    parsed.kind # "pending" =>
        \A d \in MessageDocs :
            LET rec == SelectSeq(d.content.blocks,
                                 LAMBDA b : b.type \in Recognized)
            IN  /\ parsed.kind = "yielded"
                /\ parsed.event.ev = "CodexMessage"
                /\ parsed.event.role =
                       (IF d.role = "absent" THEN "assistant" ELSE d.role)
                /\ Len(parsed.event.content) = Len(rec)
                /\ \A i \in DOMAIN rec :
                      parsed.event.content[i] =
                          CASE rec[i].type = "output_text" ->
                                 [block |-> "TextBlock", text |-> rec[i].text]
                            [] rec[i].type = "code" ->
                                 [block |-> "CodeBlock",
                                  language |-> rec[i].language,
                                  content |-> rec[i].content]
                            [] OTHER ->
                                 [block |-> "ErrorBlock",
                                  error_message |-> rec[i].error_message]
C22_Witness ==
    /\ \E d \in MessageDocs :
          /\ d.role = "user"
          /\ Len(d.content.blocks) = 2
          /\ d.content.blocks[1].type = "code"
          /\ d.content.blocks[2].type = "error"
    /\ parsed = [kind |-> "yielded",
                 event |-> [ev |-> "CodexMessage", role |-> "user",
                            content |->
                              <<[block |-> "CodeBlock", language |-> Str("py"),
                                 content |-> Str("x=1")],
                                [block |-> "ErrorBlock",
                                 error_message |-> Str("Invalid API key")]>>]]

\* C23: a block with an unrecognized tag is never dropped: the emitted
\* CodexMessage has one block per input block that is not echoed user input
\* (input_text), and an unrecognized block is, at its position, a TextBlock
\* holding its serialized form.
C23_UnknownBlockKept ==
    parsed.kind # "pending" =>
        \A d \in MessageDocs :
            LET kept == SelectSeq(d.content.blocks,
                                  LAMBDA b : b.type # "input_text")
            IN  /\ parsed.kind = "yielded"
                /\ Len(parsed.event.content) = Len(kept)
                /\ \A i \in DOMAIN kept :
                      kept[i].type \notin Recognized =>
                          parsed.event.content[i] =
                              [block |-> "TextBlock",
                               text |-> <<[tok |-> "block", blk |-> kept[i]]>>]

\* C24: no CodexMessage with an empty content list is ever yielded.
C24_NoEmptyMessage ==
    parsed.kind = "yielded" => parsed.event.content # <<>>

\* C25: a record of type result is emitted as a ResultMessage carrying the
\* record's duration, error flag, message, session id, model and token
\* count, and not as a text CodexMessage.
C25_ResultRecordKept ==
    parsed.kind # "pending" =>
        \A d \in LineDocs :
            (d.j = "object" /\ d.type = "result") =>
                parsed = [kind |-> "yielded",
                          event |-> [ev |-> "ResultMessage",
                                     duration |-> d.meta.duration,
                                     error |-> d.meta.error,
                                     message |-> d.meta.message,
                                     session_id |-> d.meta.session_id,
                                     model |-> d.meta.model,
                                     token_count |-> d.meta.token_count]]

\* C28: whenever _build_command builds an argv, its last element is the
\* prompt, as one element, unchanged.
C28_PromptIsLast ==
    command.kind = "built" =>
        /\ command.argv # <<>>
        /\ command.argv[Len(command.argv)] = prompt
C28_Witness ==
    /\ command.kind = "built"
    /\ prompt = <<Word("fix"), Sp, Quote, Word("it"), Quote>>
    /\ build_options.images # <<>>
    /\ command.argv[Len(command.argv)] = prompt

HasWhitespace(s) == \E i \in DOMAIN s : s[i].tok \in {"space", "tab"}

\* C30 as stated: an existing file is the single leading element; otherwise
\* a value that contains whitespace is split into command plus arguments;
\* otherwise the value is the single leading element.
C30_SplitOnWhitespace ==
    (command.kind # "pending" /\ cli_path.found) =>
        /\ command.kind = "built"
        /\ CASE cli_path.is_file -> command.leading = <<cli_path.text>>
             [] HasWhitespace(cli_path.text) -> Len(command.leading) >= 2
             [] OTHER -> command.leading = <<cli_path.text>>

\* C30 amended: an existing file is the single leading element; otherwise a
\* value that contains a space character is split by shell rules, and
\* builds no argv (ValueError) when it cannot be split; otherwise, even
\* with a tab in it, the value is the single leading element.
C30_SplitOnSpace ==
    (command.kind # "pending" /\ cli_path.found) =>
        CASE cli_path.is_file ->
               command.kind = "built" /\ command.leading = <<cli_path.text>>
          [] \E i \in DOMAIN cli_path.text : cli_path.text[i].tok = "space" ->
               IF ShlexSplit(cli_path.text).ok
               THEN /\ command.kind = "built"
                    /\ command.leading = ShlexSplit(cli_path.text).args
                    /\ Len(command.leading) >= 2
               ELSE command = [kind |-> "raised",
                               exc |-> [type |-> "ValueError",
                                        text |-> "No closing quotation"]]
          [] OTHER ->
               command.kind = "built" /\ command.leading = <<cli_path.text>>
C30_Witness ==
    /\ command.kind = "built"
    /\ ~cli_path.is_file
    /\ cli_path.text = <<Word("deno"), Tab, Word("codex.js")>>
    /\ command.leading = <<cli_path.text>>

\* C39: the bound used when waiting for the child's exit, which the timeout
\* error states, is options.timeout when it is positive and 300 seconds when
\* it is None or 0.
C39_ZeroTimeoutIsDefault ==
    \A i \in DOMAIN history :
        history[i] \in
            {[type |-> "None", text |-> ""],
             [type |-> "TransportError",
              text |-> "Codex CLI executable not found: codex"],
             [type |-> "ValueError", text |-> "No closing quotation"],
             [type |-> "TransportError",
              text |-> "Command timed out after "
                         \o ToString(IF options.timeout > 0
                                     THEN options.timeout ELSE 300)
                         \o "s"]}
C39_Witness ==
    /\ options.timeout = 0
    /\ history # <<>>
    /\ history[Len(history)] =
         [type |-> "TransportError", text |-> "Command timed out after 300s"]

\* C31: at a query, the -w argument and the child's cwd are the same
\* effective directory: working_dir when it is set, else cwd; with neither
\* set there is no -w and no cwd.
C31_OneEffectiveDirectory ==
    launch.step = "queried" =>
        LET effective == IF launch.working_dir # "" THEN launch.working_dir
                         ELSE launch.cwd
        IN  /\ launch.argv_w = effective
            /\ launch.child_cwd = effective

MarkersSet ==
    /\ {"CODEX_SDK", "CLAIF_PROVIDER"} \subseteq DOMAIN env.result
    /\ env.result["CODEX_SDK"] = "1"
    /\ env.result["CLAIF_PROVIDER"] = "codex"
EnvironUntouched == env.environ = env.before

C33_ResolvedPathExists ==
    resolved.step = "done" =>
        /\ "path" \in DOMAIN resolved.result =>
             resolved.result.path \in resolved.files
        /\ (/\ OnPath \notin resolved.files
            /\ \A i \in DOMAIN CommonPaths : CommonPaths[i] \notin resolved.files
            /\ resolved.codex_path \notin resolved.files)
           => "error" \in DOMAIN resolved.result

OrchEvents(e) == {i \in DOMAIN orch.log : orch.log[i].ev = e}
OrchFinished == orch.step \in {"Done", "Fatal"}
QueryEvent(o) == [ev |-> "query", out |-> o]

\* C34: after an executable-missing failure with an installer configured,
\* the installer is invoked exactly once and the query is retried exactly
\* once; a second executable-missing failure is terminal and reported as-is.
C34_InstallOnceRetryOnce ==
    /\ orch.installs <= 1 /\ orch.runs <= 2
    /\ orch.installs = Cardinality(OrchEvents("install"))
    /\ Cardinality(OrchEvents("query")) =
         IF orch.connected THEN orch.runs - 1 ELSE orch.runs
    /\ (OrchFinished /\ orch.installer /\ orch.log[1] = QueryEvent("missing")) =>
         /\ orch.installs = 1
         /\ orch.log[2] = [ev |-> "install", out |-> "installed"] =>
              /\ orch.runs = 2
              /\ Len(orch.log) = 3
              /\ orch.log[3] = QueryEvent("missing") =>
                   orch.step = "Fatal" /\ orch.result = MissingError
    /\ OrchFinished => ~ENABLED InstallNext
C34_Witness ==
    /\ orch.step = "Fatal"
    /\ orch.log = <<QueryEvent("missing"),
                    [ev |-> "install", out |-> "installed"],
                    QueryEvent("missing")>>

CliFailed(run) == run.kind # "exit" \/ run.code # 0

RECURSIVE DeltaContents(_)
DeltaContents(chunks) ==
    IF chunks = <<>> THEN <<>>
    ELSE (IF "content" \in DOMAIN Head(chunks).delta
          THEN Head(chunks).delta.content ELSE <<>>)
           \o DeltaContents(Tail(chunks))

KillAttempts == {i \in DOMAIN kill.log : kill.log[i] \in {"kill", "kill raised"}}

\* a kill attempt is the third step, after the terminate and the expiry of
\* the routine's grace period
KillOnlyAfterGrace ==
    \A i \in KillAttempts :
         /\ i = 3
         /\ kill.log[1] = "terminate"
         /\ kill.log[2] = "grace expired"
         /\ kill.waited = IF kill.routine = "cleanup" THEN 2 ELSE 5

\* C37: in the exception cleanup and in disconnect a running child is sent
\* terminate first; the kill comes only after the grace period (2 s, 5 s)
\* expired, never before the terminate; the child's exit is awaited after
\* the kill before control returns.
C37_TerminateGraceKillWait ==
    /\ KillOnlyAfterGrace
    /\ (kill.pc = "returned" /\ KillAttempts # {}) =>
         /\ kill.log[Len(kill.log)] = "wait"
         /\ kill.child = "exited"

\* C38: an attempt on a child that writes finitely much to stdout and stderr
\* and then exits always terminates: while it has not yielded its
\* ResultMessage or raised, the child or the transport can take a step.
C38_AttemptNeverStuck ==
    (pipe # Unused /\ pipe.pc # "done") => ENABLED PipeNext

====
